---- MODULE Spec2Model ----
(***************************************************************************)
(* A model of the session store of the `session` crate:                    *)
(*   src/src/sessionstore/hashsession.rs  HashSessionStore, a              *)
(*       RwLock<HashMap<K, RwLock<V>>> behind an Arc, and its              *)
(*       insert / find / swap / upsert / remove;                           *)
(*   src/src/sessions.rs                  Sessions::before, which attaches *)
(*       a session handle for the request's key to the request, and        *)
(*       Sessions::clone.                                                  *)
(*                                                                         *)
(* Every thread handles requests.  A step of a thread is one lock          *)
(* acquisition together with the map probe made under it, or the use of a  *)
(* held lock together with the release of the guards that the statement    *)
(* drops.  Guards live as the source's temporaries do: the guard of the    *)
(* scrutinee of a `match` lives to the end of the match, the guard in the  *)
(* condition of an `if` lives to the end of the condition, and a guard     *)
(* borrowed into a `let` lives to the end of the block.                    *)
(***************************************************************************)
EXTENDS Integers, FiniteSets, Sequences, TLC

\* ---------------------------------------------------------------- bounds
NumThreads == 2       \* request-handling threads
NumKeys    == 2       \* distinct session keys
MaxArg     == 1       \* values passed by callers are 0..MaxArg
MaxCalls   == 4       \* store calls made in one run
MaxFairCalls == 3     \* store calls made in one run of the fair specification
NumCounters == 3      \* threads of the counting scenario
NumSessions == 2      \* Sessions objects of the cloning scenario: the original and its clones
MaxCloneCalls == 3    \* store calls made in one run of the cloning scenario
MaxTypedCalls == 2    \* store calls made in one run of the two-store scenario

Threads  == 1..NumThreads
Counters == 1..NumCounters
Keys     == 1..NumKeys
ArgVals  == 0..MaxArg

\* Option<V>::None, the unit result of insert, and "no key".
None   == -1
Unit   == -2
NoKey  == 0

\* "No store": the store pointer of a handle or a Sessions object that does
\* not exist (yet); "no type": its value type.
NoStore == 0
NoType  == 0

\* The mutators passed to upsert: a counting one, and the one of the tests
\* (|c| *c = 'a'), which stores a constant.
Mutators == {"inc", "set"}
SetTo    == 0

VARIABLES
    sessions,       \* Sessions object -> its session_store (the Arc's pointee) and value_type
    map,            \* store -> HashMap<K, RwLock<V>>: key -> value, or None when the key has no entry
    store_readers,  \* store -> threads holding a read guard of the outer RwLock
    store_writer,   \* store -> threads holding the write guard of the outer RwLock
    entry_readers,  \* store -> key -> threads holding a read guard of that entry's RwLock
    entry_writer,   \* store -> key -> threads holding the write guard of that entry's RwLock
    alloy,          \* thread -> its request's typemap: value type -> session handle (key, store)
    pc,             \* thread -> position in the running store call
    op,             \* thread -> the running call: kind, store, key, value, mutator
    old_v,          \* thread -> swap's local old_v; in upsert, the value the mutator read through old_v
    ret,            \* thread -> value returned by the finished call
    pre,            \* thread -> value of the key when the call was made (history)
    solo,           \* thread -> no other call on the same key overlapped this one (history)
    written,        \* some insert, swap or upsert has been called (history)
    calls           \* number of store calls made so far

vars == <<sessions, map, store_readers, store_writer, entry_readers, entry_writer, alloy,
          pc, op, old_v, ret, pre, solo, written, calls>>

locks == <<store_readers, store_writer, entry_readers, entry_writer>>

Procs == DOMAIN pc

NoOp == [kind |-> "none", store |-> NoStore, key |-> NoKey, val |-> 0, mut |-> "none"]

\* The Sessions objects that exist, the stores they point to and the value
\* types they were made for.
NoSessions == [session_store |-> NoStore, value_type |-> NoType]
Live       == {m \in DOMAIN sessions : sessions[m] # NoSessions}
Stores     == DOMAIN map
ValueTypes == DOMAIN alloy[CHOOSE t \in DOMAIN alloy : TRUE]

\* No handle of that type is attached to the request.
NoHandle == [key |-> NoKey, store |-> NoStore]

\* ------------------------------------------------------------ RwLock
\* std::sync::RwLock: any number of readers, or one writer.
CanRead(readers, writer)  == writer = {}
CanWrite(readers, writer) == readers = {} /\ writer = {}

\* ------------------------------------------------------- pure helpers
\* HashMap::contains_key / HashMap::find on the map.
contains_key(m, k) == m[k] # None

\* What find hands back for the map's content: a copy of the value, or None.
FindValue(m, k) == IF contains_key(m, k) THEN m[k] ELSE None

\* The caller's mutator applied to a value.
Mutate(m, v) == IF m = "inc" THEN v + 1 ELSE SetTo

BoolVal(b) == IF b THEN 1 ELSE 0

\* ------------------------------------------------------- control flow
\* A call returns: the result is visible in `ret` until Finish.
Return(t, r) ==
    /\ pc' = [pc EXCEPT ![t] = "returned"]
    /\ ret' = [ret EXCEPT ![t] = r]

Goto(t, l) ==
    /\ pc' = [pc EXCEPT ![t] = l]
    /\ UNCHANGED ret

\* Mutant: upsert's miss path applies the mutator to the default.
AfterInsertMutated(o) ==
    IF o.kind = "swap" THEN None
    ELSE IF o.kind = "upsert" THEN Mutate(o.mut, o.val)
    ELSE Unit

\* What the caller of insert gets once insert is over: insert itself returns
\* unit, swap's miss path returns None, upsert's miss path returns `value`.
AfterInsert(o) ==
    IF o.kind = "swap" THEN None
    ELSE IF o.kind = "upsert" THEN o.val
    ELSE Unit

\* --------------------------------------------------------------- Init
\* HashSessionStore::new(): an empty map behind a fresh lock.
HashSessionStore_new == [k \in Keys |-> None]

\* Sessions::new(key_generator, store): the object keeps the store it is given.
Sessions_new(store, value_type) == [session_store |-> store, value_type |-> value_type]

\* The state once the Sessions objects ss are built, each live one over a
\* store made by HashSessionStore::new(); no request yet.
InitWith(P, ss) ==
    /\ sessions = ss
    /\ map = [a \in {ss[m].session_store : m \in DOMAIN ss} \ {NoStore} |-> HashSessionStore_new]
    /\ store_readers = [a \in DOMAIN map |-> {}]
    /\ store_writer = [a \in DOMAIN map |-> {}]
    /\ entry_readers = [a \in DOMAIN map |-> [k \in Keys |-> {}]]
    /\ entry_writer = [a \in DOMAIN map |-> [k \in Keys |-> {}]]
    /\ alloy = [t \in P |-> [vt \in {ss[m].value_type : m \in DOMAIN ss} \ {NoType} |-> NoHandle]]
    /\ pc = [t \in P |-> "idle"]
    /\ op = [t \in P |-> NoOp]
    /\ old_v = [t \in P |-> None]
    /\ ret = [t \in P |-> Unit]
    /\ pre = [t \in P |-> None]
    /\ solo = [t \in P |-> TRUE]
    /\ written = FALSE
    /\ calls = 0

\* One Sessions object over one store.
InitOn(P) == InitWith(P, [m \in {1} |-> Sessions_new(1, 1)])

Init == InitOn(Threads)

\* ------------------------------------------------- Sessions::before
\* select_session(key): a handle bound to the store and the key; nothing is
\* looked up or created.
select_session(store, k) == [key |-> k, store |-> store]

\* Mutant: attaching the handle creates the session.
BeforeCreates(t, m, k) ==
    /\ pc[t] = "idle"
    /\ m \in Live
    /\ alloy' = [alloy EXCEPT ![t][sessions[m].value_type] =
                                select_session(sessions[m].session_store, k)]
    /\ map' = [map EXCEPT ![sessions[m].session_store][k] = IF @ = None THEN 0 ELSE @]
    /\ UNCHANGED <<sessions, locks, pc, op, old_v, ret, pre, solo, written, calls>>

\* Mutant: the handle is put into the typemap under one type whatever the
\* value type of the Sessions object.
BeforeUntyped(t, m, k) ==
    /\ pc[t] = "idle"
    /\ m \in Live
    /\ alloy' = [alloy EXCEPT ![t] =
                    [vt \in DOMAIN @ |-> select_session(sessions[m].session_store, k)]]
    /\ UNCHANGED <<sessions, map, locks, pc, op, old_v, ret, pre, solo, written, calls>>

\* The before step of the Sessions object m: derive the request's key (any
\* key) and put the session handle into the request's alloy, under the type
\* Session<K, V> of the object.
Before(t, m, k) ==
    /\ pc[t] = "idle"
    /\ m \in Live
    /\ alloy' = [alloy EXCEPT ![t][sessions[m].value_type] =
                                select_session(sessions[m].session_store, k)]
    /\ UNCHANGED <<sessions, map, locks, pc, op, old_v, ret, pre, solo, written, calls>>

\* ------------------------------------------------- calls through the handle
\* The calls a handler can make on its session handle; each delegates to the
\* store with the handle's key.
HandleCalls ==
    [kind : {"insert", "swap"}, val : ArgVals, mut : {"none"}]
      \cup [kind : {"upsert"}, val : ArgVals, mut : Mutators]
      \cup [kind : {"find", "remove"}, val : {0}, mut : {"none"}]

Writes == {"insert", "swap", "upsert"}

Active(t) == pc[t] # "idle"

\* The call is on the entry of key k of store a.
OnEntry(t, a, k) == op[t].store = a /\ op[t].key = k

StartCall(t, h, c) ==
    /\ pc[t] = "idle"
    /\ h # NoHandle
    /\ pc' = [pc EXCEPT ![t] = c.kind]
    /\ op' = [op EXCEPT ![t] = [kind |-> c.kind, store |-> h.store, key |-> h.key,
                                 val |-> c.val, mut |-> c.mut]]
    /\ pre' = [pre EXCEPT ![t] = map[h.store][h.key]]
    /\ solo' = [u \in Procs |->
                  IF u = t THEN \A w \in Procs \ {t} : ~(Active(w) /\ OnEntry(w, h.store, h.key))
                  ELSE IF Active(u) /\ OnEntry(u, h.store, h.key) THEN FALSE
                  ELSE solo[u]]
    /\ written' = (written \/ c.kind \in Writes)
    /\ calls' = calls + 1
    /\ UNCHANGED <<sessions, map, locks, alloy, old_v, ret>>

\* The handler takes the handle of type vt out of the request and calls it.
Call(t, vt, c) ==
    /\ calls < MaxCalls
    /\ StartCall(t, alloy[t][vt], c)

\* The handler is done with the result.
Finish(t) ==
    /\ pc[t] = "returned"
    /\ pc' = [pc EXCEPT ![t] = "idle"]
    /\ op' = [op EXCEPT ![t] = NoOp]
    /\ old_v' = [old_v EXCEPT ![t] = None]
    /\ ret' = [ret EXCEPT ![t] = Unit]
    /\ pre' = [pre EXCEPT ![t] = None]
    /\ solo' = [solo EXCEPT ![t] = TRUE]
    /\ UNCHANGED <<sessions, map, locks, alloy, written, calls>>

\* ------------------------------------------------- Clone
\* HashSessionStore::clone: the clone's `store` is a clone of the Arc, that is,
\* a pointer to the same lock and the same map.
HashSessionStore_clone(store) == store

\* Mutant: the clone gets a store of its own, holding a copy of the entries.
Sessions_clone_copies(m, n) ==
    LET a == sessions[m].session_store
        b == Cardinality(Stores) + 1
    IN  /\ m \in Live
        /\ n \in DOMAIN sessions \ Live
        /\ sessions' = [sessions EXCEPT ![n] = Sessions_new(b, sessions[m].value_type)]
        /\ map' = [x \in Stores \cup {b} |-> IF x = b THEN map[a] ELSE map[x]]
        /\ store_readers' = [x \in Stores \cup {b} |-> IF x = b THEN {} ELSE store_readers[x]]
        /\ store_writer' = [x \in Stores \cup {b} |-> IF x = b THEN {} ELSE store_writer[x]]
        /\ entry_readers' = [x \in Stores \cup {b} |->
                                IF x = b THEN [k \in Keys |-> {}] ELSE entry_readers[x]]
        /\ entry_writer' = [x \in Stores \cup {b} |->
                               IF x = b THEN [k \in Keys |-> {}] ELSE entry_writer[x]]
        /\ UNCHANGED <<alloy, pc, op, old_v, ret, pre, solo, written, calls>>

\* Sessions::clone: a new Sessions object n with the key generator and the
\* value type of m and a clone of m's store.
Sessions_clone(m, n) ==
    /\ m \in Live
    /\ n \in DOMAIN sessions \ Live
    /\ sessions' = [sessions EXCEPT ![n] =
                       [session_store |-> HashSessionStore_clone(sessions[m].session_store),
                        value_type |-> sessions[m].value_type]]
    /\ UNCHANGED <<map, locks, alloy, pc, op, old_v, ret, pre, solo, written, calls>>

\* ------------------------------------------------- HashSessionStore::insert
\* Mutant: the read guard of the condition is kept while the body runs.
insert_read_keeps_guard(t) ==
    /\ pc[t] = "insert"
    /\ CanRead(store_readers[op[t].store], store_writer[op[t].store])
    /\ IF contains_key(map[op[t].store], op[t].key)
         THEN /\ UNCHANGED store_readers
              /\ Return(t, AfterInsert(op[t]))
         ELSE /\ store_readers' = [store_readers EXCEPT ![op[t].store] = @ \cup {t}]
              /\ Goto(t, "insert_write")
    /\ UNCHANGED <<map, store_writer, entry_readers, entry_writer, sessions, alloy, op, old_v,
                   pre, solo, written, calls>>

\* Mutant: insert takes the outer write guard whether or not the key is there.
insert_read_always_writes(t) ==
    /\ pc[t] = "insert"
    /\ CanRead(store_readers[op[t].store], store_writer[op[t].store])
    /\ Goto(t, "insert_write")
    /\ UNCHANGED <<map, locks, sessions, alloy, op, old_v, pre, solo, written, calls>>

\* if !self.store.read().contains_key(key) { ... }: the read guard is taken
\* and dropped within the condition.
insert_read(t) ==
    /\ pc[t] = "insert"
    /\ CanRead(store_readers[op[t].store], store_writer[op[t].store])
    /\ IF contains_key(map[op[t].store], op[t].key)
         THEN Return(t, AfterInsert(op[t]))
         ELSE Goto(t, "insert_write")
    /\ UNCHANGED <<map, locks, sessions, alloy, op, old_v, pre, solo, written, calls>>

\* self.store.write(): wait for the outer write guard.
insert_write(t) ==
    /\ pc[t] = "insert_write"
    /\ CanWrite(store_readers[op[t].store], store_writer[op[t].store])
    /\ store_writer' = [store_writer EXCEPT ![op[t].store] = {t}]
    /\ Goto(t, "insert_insert")
    /\ UNCHANGED <<map, store_readers, entry_readers, entry_writer, sessions, alloy, op, old_v,
                   pre, solo, written, calls>>

\* Mutant: the insertion tests for the key again under the write guard and
\* keeps an entry that is there.
insert_insert_rechecks(t) ==
    /\ pc[t] = "insert_insert"
    /\ IF contains_key(map[op[t].store], op[t].key)
         THEN UNCHANGED <<map, entry_readers, entry_writer>>
         ELSE /\ map' = [map EXCEPT ![op[t].store][op[t].key] = op[t].val]
              /\ entry_readers' = [entry_readers EXCEPT ![op[t].store][op[t].key] = {}]
              /\ entry_writer' = [entry_writer EXCEPT ![op[t].store][op[t].key] = {}]
    /\ store_writer' = [store_writer EXCEPT ![op[t].store] = @ \ {t}]
    /\ Return(t, AfterInsert(op[t]))
    /\ UNCHANGED <<store_readers, sessions, alloy, op, old_v, pre, solo, written, calls>>

\* .insert(key.clone(), RwLock::new(val)): HashMap::insert puts the new cell
\* under the key, whatever was there; the write guard is dropped.
insert_insert(t) ==
    /\ pc[t] = "insert_insert"
    /\ map' = [map EXCEPT ![op[t].store][op[t].key] = op[t].val]
    /\ entry_readers' = [entry_readers EXCEPT ![op[t].store][op[t].key] = {}]
    /\ entry_writer' = [entry_writer EXCEPT ![op[t].store][op[t].key] = {}]
    /\ store_writer' = [store_writer EXCEPT ![op[t].store] = @ \ {t}]
    /\ Return(t, AfterInsert(op[t]))
    /\ UNCHANGED <<store_readers, sessions, alloy, op, old_v, pre, solo, written, calls>>

\* ------------------------------------------------- HashSessionStore::find
\* Mutant: the outer read guard is dropped before the entry is locked.
find_read_unguarded(t) ==
    /\ pc[t] = "find"
    /\ CanRead(store_readers[op[t].store], store_writer[op[t].store])
    /\ IF contains_key(map[op[t].store], op[t].key)
         THEN Goto(t, "find_entry")
         ELSE Return(t, None)
    /\ UNCHANGED <<map, locks, sessions, alloy, op, old_v, pre, solo, written, calls>>

\* match self.store.read().find(key): on a hit the outer read guard lives to
\* the end of the match; None => None.
find_read(t) ==
    /\ pc[t] = "find"
    /\ CanRead(store_readers[op[t].store], store_writer[op[t].store])
    /\ IF contains_key(map[op[t].store], op[t].key)
         THEN /\ store_readers' = [store_readers EXCEPT ![op[t].store] = @ \cup {t}]
              /\ Goto(t, "find_entry")
         ELSE /\ UNCHANGED store_readers
              /\ Return(t, None)
    /\ UNCHANGED <<map, store_writer, entry_readers, entry_writer, sessions, alloy, op, old_v,
                   pre, solo, written, calls>>

\* lock.read(): wait for the entry's read guard.
find_entry(t) ==
    /\ pc[t] = "find_entry"
    /\ CanRead(entry_readers[op[t].store][op[t].key], entry_writer[op[t].store][op[t].key])
    /\ entry_readers' = [entry_readers EXCEPT ![op[t].store][op[t].key] = @ \cup {t}]
    /\ Goto(t, "find_clone")
    /\ UNCHANGED <<map, store_readers, store_writer, entry_writer, sessions, alloy, op, old_v,
                   pre, solo, written, calls>>

\* Some(lock.read().clone()): copy the value, drop both guards.
find_clone(t) ==
    /\ pc[t] = "find_clone"
    /\ Return(t, map[op[t].store][op[t].key])
    /\ entry_readers' = [entry_readers EXCEPT ![op[t].store][op[t].key] = @ \ {t}]
    /\ store_readers' = [store_readers EXCEPT ![op[t].store] = @ \ {t}]
    /\ UNCHANGED <<map, store_writer, entry_writer, sessions, alloy, op, old_v, pre, solo,
                   written, calls>>

\* ------------------------------------------------- HashSessionStore::swap
\* match self.store.read().find(key): Some(lock) keeps the outer read guard
\* for the arm; None => () drops it and falls through to self.insert.
swap_read(t) ==
    /\ pc[t] = "swap"
    /\ CanRead(store_readers[op[t].store], store_writer[op[t].store])
    /\ IF contains_key(map[op[t].store], op[t].key)
         THEN /\ store_readers' = [store_readers EXCEPT ![op[t].store] = @ \cup {t}]
              /\ Goto(t, "swap_entry_read")
         ELSE /\ UNCHANGED store_readers
              /\ Goto(t, "insert")
    /\ UNCHANGED <<map, store_writer, entry_readers, entry_writer, sessions, alloy, op, old_v,
                   pre, solo, written, calls>>

\* lock.read(): wait for the entry's read guard.
swap_entry_read(t) ==
    /\ pc[t] = "swap_entry_read"
    /\ CanRead(entry_readers[op[t].store][op[t].key], entry_writer[op[t].store][op[t].key])
    /\ entry_readers' = [entry_readers EXCEPT ![op[t].store][op[t].key] = @ \cup {t}]
    /\ Goto(t, "swap_clone")
    /\ UNCHANGED <<map, store_readers, store_writer, entry_writer, sessions, alloy, op, old_v,
                   pre, solo, written, calls>>

\* let old_v = lock.read().clone(); the entry's read guard is dropped at the
\* end of the statement.
swap_clone(t) ==
    /\ pc[t] = "swap_clone"
    /\ old_v' = [old_v EXCEPT ![t] = map[op[t].store][op[t].key]]
    /\ entry_readers' = [entry_readers EXCEPT ![op[t].store][op[t].key] = @ \ {t}]
    /\ Goto(t, "swap_entry_write")
    /\ UNCHANGED <<map, store_readers, store_writer, entry_writer, sessions, alloy, op,
                   pre, solo, written, calls>>

\* Mutant: swap stores under a read guard of the entry.
swap_entry_write_shared(t) ==
    /\ pc[t] = "swap_entry_write"
    /\ CanRead(entry_readers[op[t].store][op[t].key], entry_writer[op[t].store][op[t].key])
    /\ entry_readers' = [entry_readers EXCEPT ![op[t].store][op[t].key] = @ \cup {t}]
    /\ Goto(t, "swap_store")
    /\ UNCHANGED <<map, store_readers, store_writer, entry_writer, sessions, alloy, op, old_v,
                   pre, solo, written, calls>>

\* lock.write(): wait for the entry's write guard.
swap_entry_write(t) ==
    /\ pc[t] = "swap_entry_write"
    /\ CanWrite(entry_readers[op[t].store][op[t].key], entry_writer[op[t].store][op[t].key])
    /\ entry_writer' = [entry_writer EXCEPT ![op[t].store][op[t].key] = {t}]
    /\ Goto(t, "swap_store")
    /\ UNCHANGED <<map, store_readers, store_writer, entry_readers, sessions, alloy, op, old_v,
                   pre, solo, written, calls>>

\* Mutant: swap returns the value it stored.
swap_store_returns_new(t) ==
    /\ pc[t] = "swap_store"
    /\ map' = [map EXCEPT ![op[t].store][op[t].key] = op[t].val]
    /\ entry_writer' = [entry_writer EXCEPT ![op[t].store][op[t].key] = @ \ {t}]
    /\ store_readers' = [store_readers EXCEPT ![op[t].store] = @ \ {t}]
    /\ Return(t, op[t].val)
    /\ UNCHANGED <<store_writer, entry_readers, sessions, alloy, op, old_v, pre, solo,
                   written, calls>>

\* *lock.write() = value; return Some(old_v): store, drop both guards.
swap_store(t) ==
    /\ pc[t] = "swap_store"
    /\ map' = [map EXCEPT ![op[t].store][op[t].key] = op[t].val]
    /\ entry_writer' = [entry_writer EXCEPT ![op[t].store][op[t].key] = @ \ {t}]
    /\ store_readers' = [store_readers EXCEPT ![op[t].store] = @ \ {t}]
    /\ Return(t, old_v[t])
    /\ UNCHANGED <<store_writer, entry_readers, sessions, alloy, op, old_v, pre, solo,
                   written, calls>>

\* ------------------------------------------------- HashSessionStore::upsert
\* Mutant: upsert takes the write guard of the outer map.
upsert_read_exclusive(t) ==
    /\ pc[t] = "upsert"
    /\ CanWrite(store_readers[op[t].store], store_writer[op[t].store])
    /\ IF contains_key(map[op[t].store], op[t].key)
         THEN /\ store_writer' = [store_writer EXCEPT ![op[t].store] = {t}]
              /\ Goto(t, "upsert_entry")
         ELSE /\ UNCHANGED store_writer
              /\ Goto(t, "insert")
    /\ UNCHANGED <<map, store_readers, entry_readers, entry_writer, sessions, alloy, op, old_v,
                   pre, solo, written, calls>>

\* match self.store.read().find(key): as in swap.
upsert_read(t) ==
    /\ pc[t] = "upsert"
    /\ CanRead(store_readers[op[t].store], store_writer[op[t].store])
    /\ IF contains_key(map[op[t].store], op[t].key)
         THEN /\ store_readers' = [store_readers EXCEPT ![op[t].store] = @ \cup {t}]
              /\ Goto(t, "upsert_entry")
         ELSE /\ UNCHANGED store_readers
              /\ Goto(t, "insert")
    /\ UNCHANGED <<map, store_writer, entry_readers, entry_writer, sessions, alloy, op, old_v,
                   pre, solo, written, calls>>

\* Mutant: upsert mutates under a read guard of the entry.
upsert_entry_shared(t) ==
    /\ pc[t] = "upsert_entry"
    /\ CanRead(entry_readers[op[t].store][op[t].key], entry_writer[op[t].store][op[t].key])
    /\ entry_readers' = [entry_readers EXCEPT ![op[t].store][op[t].key] = @ \cup {t}]
    /\ Goto(t, "upsert_mutate")
    /\ UNCHANGED <<map, store_readers, store_writer, entry_writer, sessions, alloy, op, old_v,
                   pre, solo, written, calls>>

\* let old_v = &mut *lock.write(): wait for the entry's write guard, which
\* then lives to the end of the arm.
upsert_entry(t) ==
    /\ pc[t] = "upsert_entry"
    /\ CanWrite(entry_readers[op[t].store][op[t].key], entry_writer[op[t].store][op[t].key])
    /\ entry_writer' = [entry_writer EXCEPT ![op[t].store][op[t].key] = {t}]
    /\ Goto(t, "upsert_mutate")
    /\ UNCHANGED <<map, store_readers, store_writer, entry_readers, sessions, alloy, op, old_v,
                   pre, solo, written, calls>>

\* mutator(old_v): the caller's closure works on the value in place, through
\* the &mut it was handed: it reads the value ...
upsert_mutate(t) ==
    /\ pc[t] = "upsert_mutate"
    /\ old_v' = [old_v EXCEPT ![t] = map[op[t].store][op[t].key]]
    /\ Goto(t, "upsert_mutating")
    /\ UNCHANGED <<map, locks, sessions, alloy, op, pre, solo, written, calls>>

\* ... and writes the new one.
upsert_mutating(t) ==
    /\ pc[t] = "upsert_mutating"
    /\ map' = [map EXCEPT ![op[t].store][op[t].key] = Mutate(op[t].mut, old_v[t])]
    /\ Goto(t, "upsert_clone")
    /\ UNCHANGED <<locks, sessions, alloy, op, old_v, pre, solo, written, calls>>

\* return old_v.clone(): copy the mutated value, drop both guards.
upsert_clone(t) ==
    /\ pc[t] = "upsert_clone"
    /\ Return(t, map[op[t].store][op[t].key])
    /\ entry_writer' = [entry_writer EXCEPT ![op[t].store][op[t].key] = @ \ {t}]
    /\ store_readers' = [store_readers EXCEPT ![op[t].store] = @ \ {t}]
    /\ UNCHANGED <<map, store_writer, entry_readers, sessions, alloy, op, old_v, pre, solo,
                   written, calls>>

\* ------------------------------------------------- HashSessionStore::remove
\* self.store.write(): wait for the outer write guard.
remove_write(t) ==
    /\ pc[t] = "remove"
    /\ CanWrite(store_readers[op[t].store], store_writer[op[t].store])
    /\ store_writer' = [store_writer EXCEPT ![op[t].store] = {t}]
    /\ Goto(t, "remove_remove")
    /\ UNCHANGED <<map, store_readers, entry_readers, entry_writer, sessions, alloy, op, old_v,
                   pre, solo, written, calls>>

\* Mutant: remove empties the map.
remove_remove_clears(t) ==
    /\ pc[t] = "remove_remove"
    /\ Return(t, BoolVal(contains_key(map[op[t].store], op[t].key)))
    /\ map' = [map EXCEPT ![op[t].store] = [k \in Keys |-> None]]
    /\ store_writer' = [store_writer EXCEPT ![op[t].store] = @ \ {t}]
    /\ UNCHANGED <<store_readers, entry_readers, entry_writer, sessions, alloy, op, old_v,
                   pre, solo, written, calls>>

\* Mutant: remove reports the entry and leaves it in the map.
remove_remove_keeps(t) ==
    /\ pc[t] = "remove_remove"
    /\ Return(t, BoolVal(contains_key(map[op[t].store], op[t].key)))
    /\ store_writer' = [store_writer EXCEPT ![op[t].store] = @ \ {t}]
    /\ UNCHANGED <<map, store_readers, entry_readers, entry_writer, sessions, alloy, op, old_v,
                   pre, solo, written, calls>>

\* .remove(key): take the entry out, report whether there was one, drop the
\* write guard.
remove_remove(t) ==
    /\ pc[t] = "remove_remove"
    /\ Return(t, BoolVal(contains_key(map[op[t].store], op[t].key)))
    /\ map' = [map EXCEPT ![op[t].store][op[t].key] = None]
    /\ store_writer' = [store_writer EXCEPT ![op[t].store] = @ \ {t}]
    /\ UNCHANGED <<store_readers, entry_readers, entry_writer, sessions, alloy, op, old_v,
                   pre, solo, written, calls>>

\* ------------------------------------------------- the system
\* One step of the store call thread t is in.
Step(t) ==
    \/ insert_read(t) \/ insert_write(t) \/ insert_insert(t)
    \/ find_read(t) \/ find_entry(t) \/ find_clone(t)
    \/ swap_read(t) \/ swap_entry_read(t) \/ swap_clone(t)
    \/ swap_entry_write(t) \/ swap_store(t)
    \/ upsert_read(t) \/ upsert_entry(t) \/ upsert_mutate(t) \/ upsert_mutating(t)
    \/ upsert_clone(t)
    \/ remove_write(t) \/ remove_remove(t)

Next ==
    \/ \E t \in Procs, m \in DOMAIN sessions, k \in Keys : Before(t, m, k)
    \/ \E t \in Procs, vt \in ValueTypes, c \in HandleCalls : Call(t, vt, c)
    \/ \E t \in Procs : insert_read(t)
    \/ \E t \in Procs : insert_write(t)
    \/ \E t \in Procs : insert_insert(t)
    \/ \E t \in Procs : find_read(t)
    \/ \E t \in Procs : find_entry(t)
    \/ \E t \in Procs : find_clone(t)
    \/ \E t \in Procs : swap_read(t)
    \/ \E t \in Procs : swap_entry_read(t)
    \/ \E t \in Procs : swap_clone(t)
    \/ \E t \in Procs : swap_entry_write(t)
    \/ \E t \in Procs : swap_store(t)
    \/ \E t \in Procs : upsert_read(t)
    \/ \E t \in Procs : upsert_entry(t)
    \/ \E t \in Procs : upsert_mutate(t)
    \/ \E t \in Procs : upsert_mutating(t)
    \/ \E t \in Procs : upsert_clone(t)
    \/ \E t \in Procs : remove_write(t)
    \/ \E t \in Procs : remove_remove(t)
    \/ \E t \in Procs : Finish(t)

Spec == Init /\ [][Next]_vars

\* Fair scheduling: a thread that can take a step of its call eventually does.
\* The same system, with its own bound on the number of calls.
FairCall(t, vt, c) ==
    /\ calls < MaxFairCalls
    /\ StartCall(t, alloy[t][vt], c)

FairNext ==
    \/ \E t \in Procs, m \in DOMAIN sessions, k \in Keys : Before(t, m, k)
    \/ \E t \in Procs, vt \in ValueTypes, c \in HandleCalls : FairCall(t, vt, c)
    \/ \E t \in Procs : insert_read(t)
    \/ \E t \in Procs : insert_write(t)
    \/ \E t \in Procs : insert_insert(t)
    \/ \E t \in Procs : find_read(t)
    \/ \E t \in Procs : find_entry(t)
    \/ \E t \in Procs : find_clone(t)
    \/ \E t \in Procs : swap_read(t)
    \/ \E t \in Procs : swap_entry_read(t)
    \/ \E t \in Procs : swap_clone(t)
    \/ \E t \in Procs : swap_entry_write(t)
    \/ \E t \in Procs : swap_store(t)
    \/ \E t \in Procs : upsert_read(t)
    \/ \E t \in Procs : upsert_entry(t)
    \/ \E t \in Procs : upsert_mutate(t)
    \/ \E t \in Procs : upsert_mutating(t)
    \/ \E t \in Procs : upsert_clone(t)
    \/ \E t \in Procs : remove_write(t)
    \/ \E t \in Procs : remove_remove(t)
    \/ \E t \in Procs : Finish(t)

FairSpec == Init /\ [][FairNext]_vars /\ \A t \in Threads : WF_vars(Step(t))

\* ------------------------------------------------- the cloning scenario
\* One Sessions object over one store, and room for its clones: Sessions
\* objects are cloned while requests are handled through all of them.
CloneInit ==
    InitWith(Threads, [m \in 1..NumSessions |->
                         IF m = 1 THEN Sessions_new(1, 1) ELSE NoSessions])

CloneCall(t, vt, c) ==
    /\ calls < MaxCloneCalls
    /\ StartCall(t, alloy[t][vt], c)

CloneNext ==
    \/ \E m, n \in DOMAIN sessions : Sessions_clone(m, n)
    \/ \E t \in Procs, m \in DOMAIN sessions, k \in Keys : Before(t, m, k)
    \/ \E t \in Procs, vt \in ValueTypes, c \in HandleCalls : CloneCall(t, vt, c)
    \/ \E t \in Procs : insert_read(t)
    \/ \E t \in Procs : insert_write(t)
    \/ \E t \in Procs : insert_insert(t)
    \/ \E t \in Procs : find_read(t)
    \/ \E t \in Procs : find_entry(t)
    \/ \E t \in Procs : find_clone(t)
    \/ \E t \in Procs : swap_read(t)
    \/ \E t \in Procs : swap_entry_read(t)
    \/ \E t \in Procs : swap_clone(t)
    \/ \E t \in Procs : swap_entry_write(t)
    \/ \E t \in Procs : swap_store(t)
    \/ \E t \in Procs : upsert_read(t)
    \/ \E t \in Procs : upsert_entry(t)
    \/ \E t \in Procs : upsert_mutate(t)
    \/ \E t \in Procs : upsert_mutating(t)
    \/ \E t \in Procs : upsert_clone(t)
    \/ \E t \in Procs : remove_write(t)
    \/ \E t \in Procs : remove_remove(t)
    \/ \E t \in Procs : Finish(t)

SpecClone == CloneInit /\ [][CloneNext]_vars

\* ------------------------------------------------- the two-store scenario
\* Two Sessions objects of different value types, each over a store of its
\* own (Sessions::new(f, HashSessionStore::<K, V1>::new()) and the same for
\* V2), linked before the same handlers.
TypedInit == InitWith(Threads, [m \in {1, 2} |-> Sessions_new(m, m)])

TypedCall(t, vt, c) ==
    /\ calls < MaxTypedCalls
    /\ StartCall(t, alloy[t][vt], c)

TypedNext ==
    \/ \E t \in Procs, m \in DOMAIN sessions, k \in Keys : Before(t, m, k)
    \/ \E t \in Procs, vt \in ValueTypes, c \in HandleCalls : TypedCall(t, vt, c)
    \/ \E t \in Procs : insert_read(t)
    \/ \E t \in Procs : insert_write(t)
    \/ \E t \in Procs : insert_insert(t)
    \/ \E t \in Procs : find_read(t)
    \/ \E t \in Procs : find_entry(t)
    \/ \E t \in Procs : find_clone(t)
    \/ \E t \in Procs : swap_read(t)
    \/ \E t \in Procs : swap_entry_read(t)
    \/ \E t \in Procs : swap_clone(t)
    \/ \E t \in Procs : swap_entry_write(t)
    \/ \E t \in Procs : swap_store(t)
    \/ \E t \in Procs : upsert_read(t)
    \/ \E t \in Procs : upsert_entry(t)
    \/ \E t \in Procs : upsert_mutate(t)
    \/ \E t \in Procs : upsert_mutating(t)
    \/ \E t \in Procs : upsert_clone(t)
    \/ \E t \in Procs : remove_write(t)
    \/ \E t \in Procs : remove_remove(t)
    \/ \E t \in Procs : Finish(t)

SpecTyped == TypedInit /\ [][TypedNext]_vars

\* ------------------------------------------------- who waits for whom
\* The guard thread t asks for next, by its position in the call.
NeedsStoreRead(t)  == pc[t] \in {"insert", "find", "swap", "upsert"}
NeedsStoreWrite(t) == pc[t] \in {"insert_write", "remove"}
NeedsEntryRead(t)  == pc[t] \in {"find_entry", "swap_entry_read"}
NeedsEntryWrite(t) == pc[t] \in {"swap_entry_write", "upsert_entry"}

\* t cannot get the guard it asks for as long as u holds the guard it holds.
WaitsFor(t, u) ==
    \/ NeedsStoreRead(t) /\ u \in store_writer[op[t].store]
    \/ NeedsStoreWrite(t) /\ u \in store_readers[op[t].store] \cup store_writer[op[t].store]
    \/ NeedsEntryRead(t) /\ u \in entry_writer[op[t].store][op[t].key]
    \/ NeedsEntryWrite(t) /\ u \in entry_readers[op[t].store][op[t].key] \cup entry_writer[op[t].store][op[t].key]

Blocked(t) == \E u \in Procs : WaitsFor(t, u)

InCall(t) == pc[t] \notin {"idle", "returned"}

\* The guards of the outer locks a thread holds.
HoldsStoreRead(t)  == \E a \in Stores : t \in store_readers[a]
HoldsStoreWrite(t) == \E a \in Stores : t \in store_writer[a]

\* Two calls on the same entry: the same key of the same store.
SameEntry(t, u) == op[t].store = op[u].store /\ op[t].key = op[u].key

\* The positions at which a thread reads, and at which it writes, the value of
\* the entry of its key (or, for remove, takes the entry out of the map).
Reading(t, a, k) == OnEntry(t, a, k) /\ pc[t] \in {"find_clone", "swap_clone"}
Writing(t, a, k) ==
    OnEntry(t, a, k) /\ pc[t] \in {"swap_store", "upsert_mutate", "upsert_mutating",
                                   "upsert_clone", "remove_remove"}

\* ------------------------------------------------- the counting scenario
\* NumCounters threads, each holding a handle for CountKey, whose entry exists
\* and holds 0 (as after insert(CountKey, 0)); each calls
\* upsert(CountKey, _, increment) once and keeps its result.
CountKey   == 1
CountStore == 1
CountType  == 1

CountInit ==
    /\ sessions = [m \in {CountStore} |-> Sessions_new(CountStore, CountType)]
    /\ map = [a \in {CountStore} |-> [k \in Keys |-> IF k = CountKey THEN 0 ELSE None]]
    /\ store_readers = [a \in {CountStore} |-> {}]
    /\ store_writer = [a \in {CountStore} |-> {}]
    /\ entry_readers = [a \in {CountStore} |-> [k \in Keys |-> {}]]
    /\ entry_writer = [a \in {CountStore} |-> [k \in Keys |-> {}]]
    /\ alloy = [t \in Counters |->
                 [vt \in {CountType} |-> select_session(CountStore, CountKey)]]
    /\ pc = [t \in Counters |-> "idle"]
    /\ op = [t \in Counters |-> NoOp]
    /\ old_v = [t \in Counters |-> None]
    /\ ret = [t \in Counters |-> Unit]
    /\ pre = [t \in Counters |-> None]
    /\ solo = [t \in Counters |-> TRUE]
    /\ written = TRUE
    /\ calls = 1

CountCall(t) ==
    \E v \in ArgVals : StartCall(t, alloy[t][CountType], [kind |-> "upsert", val |-> v, mut |-> "inc"])

CountNext ==
    \/ \E t \in Procs : CountCall(t)
    \/ \E t \in Procs : upsert_read(t)
    \/ \E t \in Procs : upsert_entry(t)
    \/ \E t \in Procs : upsert_mutate(t)
    \/ \E t \in Procs : upsert_mutating(t)
    \/ \E t \in Procs : upsert_clone(t)

SpecCount == CountInit /\ [][CountNext]_vars

\* The counting scenario on a key that has no entry yet: NumCounters threads,
\* each calling upsert(CountKey, 0, increment) once on the fresh store.
AbsentInit ==
    /\ sessions = [m \in {CountStore} |-> Sessions_new(CountStore, CountType)]
    /\ map = [a \in {CountStore} |-> [k \in Keys |-> None]]
    /\ store_readers = [a \in {CountStore} |-> {}]
    /\ store_writer = [a \in {CountStore} |-> {}]
    /\ entry_readers = [a \in {CountStore} |-> [k \in Keys |-> {}]]
    /\ entry_writer = [a \in {CountStore} |-> [k \in Keys |-> {}]]
    /\ alloy = [t \in Counters |->
                 [vt \in {CountType} |-> select_session(CountStore, CountKey)]]
    /\ pc = [t \in Counters |-> "idle"]
    /\ op = [t \in Counters |-> NoOp]
    /\ old_v = [t \in Counters |-> None]
    /\ ret = [t \in Counters |-> Unit]
    /\ pre = [t \in Counters |-> None]
    /\ solo = [t \in Counters |-> TRUE]
    /\ written = FALSE
    /\ calls = 0

AbsentCall(t) ==
    StartCall(t, alloy[t][CountType], [kind |-> "upsert", val |-> 0, mut |-> "inc"])

AbsentNext ==
    \/ \E t \in Procs : AbsentCall(t)
    \/ \E t \in Procs : upsert_read(t)
    \/ \E t \in Procs : upsert_entry(t)
    \/ \E t \in Procs : upsert_mutate(t)
    \/ \E t \in Procs : upsert_mutating(t)
    \/ \E t \in Procs : upsert_clone(t)
    \/ \E t \in Procs : insert_read(t)
    \/ \E t \in Procs : insert_write(t)
    \/ \E t \in Procs : insert_insert(t)

SpecCountAbsent == AbsentInit /\ [][AbsentNext]_vars

\* ======================================================== the claims

Returned(t, kind) == pc[t] = "returned" /\ op[t].kind = kind

\* C1: with the key present and holding 0, once every one of the N threads
\* has returned from its single upsert(k, _, increment), find(k) yields N.
NoLostUpdates ==
    (\A t \in Procs : Returned(t, "upsert"))
        => FindValue(map[CountStore], CountKey) = Cardinality(Procs)

C1_AllReturned ==
    /\ \A t \in Procs : Returned(t, "upsert")
    /\ \E t \in Procs : ~solo[t]
    /\ Cardinality(Procs) > 1

\* C2: swap on a present key is atomic: when swap stores the new value, the
\* value it replaces is the one it read and will return (no other write to the
\* key took effect in between).
SwapAtomic ==
    \A t \in Procs :
        pc[t] = "swap_store" => map[op[t].store][op[t].key] = old_v[t]

\* C3: insert never overwrites: when an insert call performs its map
\* insertion, the key has no entry.
InsertNeverOverwrites ==
    \A t \in Procs :
        (pc[t] = "insert_insert" /\ op[t].kind = "insert")
            => ~contains_key(map[op[t].store], op[t].key)

\* A find that no call on its key overlapped returns what FindValue says of
\* the map: FindValue is what "a following find(k)" returns.
FindReturnsValue ==
    \A t \in Procs :
        (Returned(t, "find") /\ solo[t]) => ret[t] = FindValue(map[op[t].store], op[t].key)

\* C4: a swap(k, v) that no call on k overlapped returns None on an absent key
\* and Some(v1) on a key holding v1 (also when v1 = v), and a following
\* find(k) returns v.
SequentialSwap ==
    /\ FindReturnsValue
    /\ \A t \in Procs :
        (Returned(t, "swap") /\ solo[t]) =>
            /\ ret[t] = pre[t]
            /\ FindValue(map[op[t].store], op[t].key) = op[t].val

C4_SwapSameValue ==
    \E t \in Procs :
        /\ Returned(t, "swap") /\ solo[t]
        /\ pre[t] # None /\ pre[t] = op[t].val
        /\ \E u \in Procs : u # t /\ InCall(u)

\* C5: an upsert(k, default, mutator) that no call on k overlapped returns
\* default, unmutated, on an absent key and leaves find(k) = default; on a key
\* holding v it returns mutator(v) and leaves find(k) = mutator(v).
SequentialUpsert ==
    /\ FindReturnsValue
    /\ \A t \in Procs :
        (Returned(t, "upsert") /\ solo[t]) =>
            LET r == IF pre[t] = None THEN op[t].val ELSE Mutate(op[t].mut, pre[t])
            IN  ret[t] = r /\ FindValue(map[op[t].store], op[t].key) = r

C5_UpsertedBoth ==
    \E t \in Procs :
        /\ Returned(t, "upsert") /\ solo[t]
        /\ pre[t] # None /\ op[t].mut = "inc" /\ ret[t] = pre[t] + 1
        /\ op[t].val # ret[t]

\* C6: a remove(k) that no call on k overlapped returns true on a present key
\* and false on an absent one, and find(k) is empty afterwards; no step of a
\* remove on a key without entry changes the map.
RemoveResult ==
    \A t \in Procs :
        (Returned(t, "remove") /\ solo[t]) =>
            /\ ret[t] = BoolVal(pre[t] # None)
            /\ FindValue(map[op[t].store], op[t].key) = None

RemoveAbsentNoOp ==
    \A t \in Procs :
        (op[t].kind = "remove" /\ pc'[t] # pc[t] /\ ~contains_key(map[op[t].store], op[t].key))
            => map' = map

RemoveContract == []FindReturnsValue /\ []RemoveResult /\ [][RemoveAbsentNoOp]_vars

C6_RemovedPresent ==
    \E t \in Procs :
        /\ Returned(t, "remove") /\ solo[t]
        /\ pre[t] # None /\ ret[t] = 1
        /\ \E k \in Keys : contains_key(map[op[t].store], k)

\* C7: find returns None for a key without entry, and attaching handles
\* creates none: as long as no insert, swap or upsert was called, every key is
\* absent and every find returns None.
FreshStoreStaysEmpty ==
    /\ \A t \in Procs :
        (Returned(t, "find") /\ solo[t] /\ pre[t] = None) => ret[t] = None
    /\ ~written =>
        /\ \A a \in Stores, k \in Keys : FindValue(map[a], k) = None
        /\ \A t \in Procs : Returned(t, "find") => ret[t] = None

C7_HandlesAndFinds ==
    /\ ~written
    /\ \A t \in Procs, vt \in ValueTypes : alloy[t][vt] # NoHandle
    /\ \E t, u \in Procs : ~SameEntry(t, u) /\ Returned(t, "find") /\ Returned(u, "find")

\* C8: no reachable state has every thread that is inside a call blocked on a
\* lock, and under fair scheduling every call returns.
NoDeadlock ==
    (\E t \in Procs : InCall(t)) => \E t \in Procs : InCall(t) /\ ~Blocked(t)

DeadlockFreeAndTerminating ==
    /\ []NoDeadlock
    /\ \A t \in Threads : (InCall(t) ~> pc[t] = "returned")

C8_SomeoneWaits ==
    \E t, u \in Procs :
        /\ Blocked(t) /\ NeedsStoreWrite(t)
        /\ InCall(u) /\ ~Blocked(u)
        /\ calls = MaxFairCalls

\* C9: while a thread stores swap's value into k's entry, runs upsert's mutator
\* on it or removes it, no other thread reads or writes that entry's value.
WriteExclusive ==
    \A a \in Stores, k \in Keys : \A t, u \in Procs :
        (t # u /\ Writing(t, a, k)) => ~Writing(u, a, k) /\ ~Reading(u, a, k)

C9_WriterKeepsOthersOut ==
    \E a \in Stores, k \in Keys : \E t, u \in Procs :
        /\ t # u /\ Writing(t, a, k) /\ pc[t] = "upsert_mutating"
        /\ OnEntry(u, a, k) /\ (NeedsEntryRead(u) \/ NeedsEntryWrite(u))

\* Readers of one entry do overlap.
C9_ReadersOverlap ==
    \E a \in Stores, k \in Keys : \E t, u \in Procs :
        t # u /\ Reading(t, a, k) /\ Reading(u, a, k)

\* C10: while a thread is inside upsert's mutation of k1, a find, swap or upsert
\* of another thread on a different key that has an entry never waits for a
\* guard the first thread holds.
InMutation(t) == pc[t] \in {"upsert_mutate", "upsert_mutating", "upsert_clone"}

OnPresentKey(u) ==
    /\ op[u].kind \in {"find", "swap", "upsert"}
    /\ \/ pc[u] \in {"find", "swap", "upsert"} /\ contains_key(map[op[u].store], op[u].key)
       \/ pc[u] \in {"find_entry", "find_clone", "swap_entry_read", "swap_clone",
                     "swap_entry_write", "swap_store", "upsert_entry",
                     "upsert_mutate", "upsert_mutating", "upsert_clone"}

DifferentKeysDoNotSerialize ==
    \A t, u \in Procs :
        (t # u /\ InMutation(t) /\ OnPresentKey(u) /\ op[u].key # op[t].key)
            => ~WaitsFor(u, t)

C10_BothInside ==
    \E t, u \in Procs :
        /\ t # u /\ pc[t] = "upsert_mutating" /\ op[u].key # op[t].key
        /\ pc[u] \in {"swap_store", "find_clone", "upsert_clone"}

\* C11: cloning shares state: every Sessions object made by cloning, and every
\* handle made through one, points to the one store of the original, so that
\* find(k) through any of them yields the same; and a clone step neither
\* copies nor resets entries: it leaves the stores and their entries as they are.
ClonesAlias ==
    /\ \A m, n \in Live :
        /\ sessions[m].session_store = sessions[n].session_store
        /\ \A k \in Keys : FindValue(map[sessions[m].session_store], k)
                               = FindValue(map[sessions[n].session_store], k)
    /\ \A t \in Procs, vt \in ValueTypes, m \in Live :
        alloy[t][vt] # NoHandle => alloy[t][vt].store = sessions[m].session_store

CloneStep == Live' # Live => map' = map

CloningSharesState == []ClonesAlias /\ [][CloneStep]_vars

C11_FindsThroughClones ==
    /\ Cardinality(Live) = NumSessions
    /\ \E t, u \in Procs :
        /\ t # u /\ Returned(t, "find") /\ Returned(u, "find")
        /\ SameEntry(t, u) /\ ret[t] = ret[u] /\ ret[t] # None

\* C12: two sessions of different value types on one request: attaching a
\* handle changes the typemap's slot of its own type only and never empties
\* a slot, each attached handle is the one of the store of its type, the two
\* stores differ, and a step of a call through one handle leaves every other
\* store's entries as they are.
TypedHandles ==
    \A t \in Procs, vt \in ValueTypes :
        alloy[t][vt] # NoHandle =>
            /\ \E m \in Live : /\ sessions[m].value_type = vt
                               /\ sessions[m].session_store = alloy[t][vt].store
            /\ \A w \in ValueTypes \ {vt} :
                   alloy[t][w] # NoHandle => alloy[t][w].store # alloy[t][vt].store

TypedFrameStep ==
    \A t \in Procs :
        /\ \A vt \in ValueTypes :
              /\ alloy[t][vt] # NoHandle => alloy'[t][vt] # NoHandle
              /\ alloy'[t][vt] # alloy[t][vt] =>
                     \A w \in ValueTypes \ {vt} : alloy'[t][w] = alloy[t][w]
        /\ (InCall(t) /\ pc'[t] # pc[t]) =>
              \A a \in Stores \ {op[t].store} : map'[a] = map[a]

TypedSessionsDoNotInterfere == []TypedHandles /\ [][TypedFrameStep]_vars

C12_BothHandlesOneKey ==
    \E t \in Procs : \E vt, w \in ValueTypes :
        /\ vt # w /\ alloy[t][vt] # NoHandle /\ alloy[t][vt].key = alloy[t][w].key
        /\ Returned(t, "insert") /\ op[t].store = alloy[t][vt].store
        /\ contains_key(map[alloy[t][w].store], alloy[t][w].key)
        /\ map[alloy[t][vt].store][alloy[t][vt].key] = op[t].val
        /\ map[alloy[t][w].store][alloy[t][w].key] # op[t].val

\* C13: swap's write is never dropped: when swap(k, v) and insert(k, w) are
\* the only two calls made on a fresh store and both have returned, find(k)
\* yields v.
SwapWriteNeverDropped ==
    \A t, u \in Procs :
        (/\ Returned(t, "swap") /\ Returned(u, "insert")
         /\ SameEntry(t, u) /\ calls = 2)
            => FindValue(map[op[t].store], op[t].key) = op[t].val

\* C14: an empty result of swap means "first write": when two swaps on one key
\* are the only two calls made on a fresh store and both have returned, at
\* most one of them returned None, and the other returned the first one's value.
SwapEmptyMeansFirstWrite ==
    \A t, u \in Procs :
        (/\ t # u /\ Returned(t, "swap") /\ Returned(u, "swap")
         /\ SameEntry(t, u) /\ calls = 2)
            => /\ ~(ret[t] = None /\ ret[u] = None)
               /\ ret[u] # None => ret[u] = op[t].val

\* C15: the value upsert returns is the value the entry of its key holds at
\* the step at which the call returns (the mutated value on the hit path, the
\* inserted default on the miss path).
UpsertReturn(t) ==
    op[t].kind = "upsert" /\ pc[t] # "returned" /\ pc'[t] = "returned"

UpsertReturnsHeldValue ==
    [][\A t \in Procs : UpsertReturn(t) => ret'[t] = map'[op[t].store][op[t].key]]_vars

\* C16: the insert race: when insert(k, v1) and insert(k, v2) are the only two
\* calls made on a fresh store, both return and k then has an entry holding v1
\* or v2; an insert that saw k absent puts its value whatever was put since
\* (the call that takes the outer write guard last wins), and an insert that
\* saw k present leaves the map as it is (the first insertion stands).
InsertRacing(t, u) ==
    /\ t # u /\ calls = 2
    /\ op[t].kind = "insert" /\ op[u].kind = "insert" /\ SameEntry(t, u)

InsertRaceResult ==
    \A t, u \in Procs :
        (InsertRacing(t, u) /\ pc[t] = "returned" /\ pc[u] = "returned")
            => FindValue(map[op[t].store], op[t].key) \in {op[t].val, op[u].val}

InsertRaceStep ==
    \A t, u \in Procs :
        InsertRacing(t, u) =>
            /\ (pc[t] = "insert_insert" /\ pc'[t] = "returned")
                   => FindValue(map'[op[t].store], op[t].key) = op[t].val
            /\ (pc[t] = "insert" /\ pc'[t] = "returned")
                   => /\ contains_key(map[op[t].store], op[t].key)
                      /\ pc[u] = "returned"
                      /\ map' = map /\ FindValue(map[op[t].store], op[t].key) = op[u].val

InsertRaceLastWriteWins ==
    /\ []InsertRaceResult
    /\ [][InsertRaceStep]_vars
    /\ \A t \in Threads : (op[t].kind = "insert" /\ InCall(t)) ~> pc[t] = "returned"

C16_SecondWriterOverwrites ==
    \E t, u \in Procs :
        /\ InsertRacing(t, u) /\ pc[t] = "returned" /\ pc[u] = "insert_insert"
        /\ contains_key(map[op[u].store], op[u].key) /\ op[t].val # op[u].val

\* C17: the outer write guard is taken only inside insert, after the call saw
\* the key absent under the outer read guard, and held only for the insertion.
\* As claimed: never by remove or find.
OuterWriteOnlyInInsert ==
    \A t \in Procs :
        HoldsStoreWrite(t) => pc[t] = "insert_insert" /\ op[t].kind # "remove"

\* C17 as amended: ... or inside remove, held only for the removal; find, and
\* insert, swap and upsert on a key seen present, never take it.
OuterWriteHeld ==
    \A t \in Procs :
        /\ HoldsStoreWrite(t) => pc[t] \in {"insert_insert", "remove_remove"}
        /\ HoldsStoreWrite(t) => op[t].kind # "find"

OuterWriteStep ==
    \A t \in Procs :
        /\ (~HoldsStoreWrite(t) /\ HoldsStoreWrite(t)')
               => pc[t] \in {"insert_write", "remove"}
        /\ (pc[t] # "insert_write" /\ pc'[t] = "insert_write")
               => pc[t] = "insert" /\ ~contains_key(map[op[t].store], op[t].key)
        /\ (HoldsStoreWrite(t) /\ pc'[t] # pc[t]) => ~HoldsStoreWrite(t)'

OuterWriteOnlyInInsertOrRemove == []OuterWriteHeld /\ [][OuterWriteStep]_vars

C17_InsertAndRemoveWrite ==
    \E t, u \in Procs :
        /\ HoldsStoreWrite(t) /\ op[t].kind = "upsert"
        /\ op[u].kind = "remove" /\ NeedsStoreWrite(u)

\* C18: lock order: a thread holding the outer write guard neither holds nor
\* waits for an entry guard; a thread holding an entry guard does not wait for
\* the outer write guard; entry guards are asked for and held only under the
\* outer read guard.
HoldsEntry(t) ==
    \E a \in Stores, k \in Keys : t \in entry_readers[a][k] \cup entry_writer[a][k]

NeedsEntry(t) == NeedsEntryRead(t) \/ NeedsEntryWrite(t)

LockOrder ==
    \A t \in Procs :
        /\ HoldsStoreWrite(t) => ~HoldsEntry(t) /\ ~NeedsEntry(t)
        /\ HoldsEntry(t) => ~NeedsStoreWrite(t)
        /\ (HoldsEntry(t) \/ NeedsEntry(t)) => HoldsStoreRead(t)

C18_EntryHeldWhileWriterWaits ==
    \E t, u \in Procs :
        /\ t # u /\ HoldsEntry(t) /\ HoldsStoreRead(t)
        /\ NeedsStoreWrite(u) /\ WaitsFor(u, t)

\* C19: no lost updates from an absent key: once every one of the N threads
\* has returned from its single upsert(k, 0, increment) on the fresh store,
\* find(k) yields N - 1.
NoLostUpdatesFromAbsent ==
    (\A t \in Procs : Returned(t, "upsert"))
        => FindValue(map[CountStore], CountKey) = Cardinality(Procs) - 1

\* C20: key isolation: a step of a call on key k changes neither the presence
\* nor the value of any other key, and a step of find changes no key at all.
KeyIsolationStep ==
    \A t \in Procs :
        (InCall(t) /\ pc'[t] # pc[t]) =>
            /\ \A k \in Keys \ {op[t].key} : map'[op[t].store][k] = map[op[t].store][k]
            /\ op[t].kind = "find" => map' = map

KeyIsolation == [][KeyIsolationStep]_vars

C20_OtherKeyKept ==
    \E t \in Procs : \E k \in Keys :
        /\ Returned(t, "insert") /\ FindValue(map[op[t].store], op[t].key) = op[t].val
        /\ k # op[t].key /\ contains_key(map[op[t].store], k)
        /\ \E u \in Procs : u # t /\ OnEntry(u, op[t].store, k) /\ pc[u] = "upsert_mutating"

\* The guards of the steps and WaitsFor agree: a thread inside a call can
\* take its step exactly when it waits for nobody.
WaitsAgree ==
    \A t \in Procs : InCall(t) => (Blocked(t) <=> ~ENABLED Step(t))

====
